---- MODULE Spec2Model ----
(***************************************************************************)
(* Streaming parquet source of polars-pipe (executors/sources/parquet.rs). *)
(* The ParquetSource struct is the record `self`; every method is an       *)
(* operator from a source record to a source record and a status.  A       *)
(* Source::get_batches call is a chain of actions, cut where the call      *)
(* waits on the runtime (the init futures of an async refill, lines        *)
(* 332-341, each cut at its fetch_add, lines 224-226, and next_batches,    *)
(* line 367) and between its two accesses to the process-wide source-index *)
(* counter (lines 376 and 385).                                            *)
(***************************************************************************)
EXTENDS Integers, Sequences, FiniteSets, TLC

\* ---------------------------------------------------------------- bounds
MaxFiles == 3
MaxRows == 3
MaxPrefetch == 3
MaxSliceOffset == 2
MaxSliceLen == 2
MaxRowIndexStart == 1
MaxOther == 2
SharedFiles == 2
SharedRows == 2
NThreads == 2
ChunkSize == 1
\* The scan of many files with a large prefetch size.
ManyPrefetch == 8
ManyFiles == 10

\* ----------------------------------------------------------- small helpers
Min(a, b) == IF a <= b THEN a ELSE b
Max(a, b) == IF a >= b THEN a ELSE b

\* F applied to the value of x: the argument is evaluated once, before the
\* call, as the statements of the source are.
Strict(F(_), x) == CHOOSE y \in {F(v) : v \in {x}} : TRUE

\* Option<T>: None is the empty sequence, Some(x) the one-element sequence.
None == << >>
Some(x) == << x >>
IsSome(o) == Len(o) = 1
Unwrap(o) == o[1]

VARIABLES
    n_rows,       \* file system: n_rows[i + 1] is what num_rows() returns for path i
    fault,        \* file system: the one path (if any) whose I/O fails, and how
    feature_async, \* build: the crate is compiled with feature "async"
    overflow_checks, \* build: integer overflow panics (debug profile) instead
                  \* of wrapping (release profile)
    self,         \* the ParquetSource
    CHUNK_INDEX,  \* the process-wide source-index counter
    pc,           \* where the get_batches call is: "idle" (no call) |
                  \* "running" (at line 360) | "refill" (waiting for the
                  \* init futures, lines 332-341) | "fetched" (prefetch_files
                  \* returned Ok) | "decode" (waiting for next_batches, line
                  \* 367) | "assign" (between lines 376 and 385) |
                  \* "spinning" (in the sync loop over a wrapped range) |
                  \* "panicked"
    range,        \* prefetch_files' local `range` (the collected indices)
                  \* while pc = "refill"
    init_done,    \* while pc = "refill": per index of `range`, the reader its
                  \* init future returned, None while the future is pending
    init_at,      \* while pc = "refill": per index of `range`, where its init
                  \* future is: "new" (not polled yet) | "open" (awaiting the
                  \* I/O of lines 202-223) | "batched" (past the fetch_add,
                  \* awaiting line 240) | "done" (returned its reader)
    init_built,   \* while pc = "refill": per index of `range`, the reader
                  \* configured by with_slice (line 240), not yet returned
    entry,        \* history: the source when prefetch_files was last entered
    reader,       \* get_batches' local `reader` while pc is "decode" or "assign"
    batches,      \* get_batches' local `batches` while pc = "assign"
    idx_offset,   \* get_batches' local `idx_offset` while pc = "assign"
    result,       \* what the last get_batches call returned
    out,          \* the vector of the last GotMoreData
    emitted,      \* history: every DataChunk returned so far, in order
    called,       \* history: some get_batches call has been made
    errored,      \* history: some get_batches call returned an error
    idx_at_call,  \* history: CHUNK_INDEX when the running / last call started
    idx_at_read,  \* history: CHUNK_INDEX when the running / last call read it
    idx_at_return, \* history: CHUNK_INDEX when the last GotMoreData was returned
    other_during, \* history: amount other users added during the running / last call
    other_left,   \* remaining advances / calls of the other users of the counter
    other,        \* a second Source of the process: its position in
                  \* get_batches, its idx_offset and batch count, its chunk indices
    measure_at_call \* history: queued readers plus remaining indices when the
                  \* running / last call started

vars == << n_rows, fault, feature_async, overflow_checks, range,
                    init_done, init_at, init_built, entry, self, CHUNK_INDEX, pc, reader, batches, idx_offset,
           result, out, emitted, called, errored, idx_at_call, idx_at_read,
           idx_at_return, other_during, other_left, other, measure_at_call >>

\* ------------------------------------------------------------ file system
NoFault == [kind |-> "none", file |-> 0]
NFiles == Len(n_rows)
num_rows(index) == n_rows[index + 1]

RECURSIVE SumRows(_)
\* Sum of num_rows over a set of file indices.
SumRows(S) ==
    IF S = {} THEN 0
    ELSE LET i == CHOOSE x \in S : TRUE IN num_rows(i) + SumRows(S \ {i})

\* Rows of files 0 .. i-1.
RowsBefore(i) == SumRows(0 .. i - 1)
TotalRows == SumRows(0 .. NFiles - 1)

\* ------------------------------------------------------- Range<usize> iter
iter_has_next(it) == it.start < it.end
iter_advance(it, k) == [it EXCEPT !.start = it.start + k]
iter_remaining(it) == IF it.start < it.end THEN it.end - it.start ELSE 0

\* ------------------------------------------------- polars_io (not in src/)
\* split_slice_at_file: the part of the global slice [slice_start, slice_end)
\* that falls into the file covering [current_row_offset, + n_rows_this_file).
split_slice_at_file(current_row_offset, n_rows_this_file, slice_start, slice_end) ==
    LET next_file_offset == current_row_offset + n_rows_this_file
        lo == Max(slice_start, current_row_offset)
        hi == Min(slice_end, next_file_offset)
    IN  IF hi > lo THEN << lo - current_row_offset, hi - lo >> ELSE << 0, 0 >>

\* A bound BatchedParquetReader.  `pos` counts the rows of the file's slice
\* already handed out.
new_reader(index, n, ri, slice) ==
    [file |-> index, n_rows |-> n, row_index |-> ri, slice |-> slice, pos |-> 0]

reader_lo(r) == IF IsSome(r.slice) THEN Min(Unwrap(r.slice)[1], r.n_rows) ELSE 0
reader_hi(r) ==
    IF IsSome(r.slice)
    THEN Min(Unwrap(r.slice)[1] + Unwrap(r.slice)[2], r.n_rows)
    ELSE r.n_rows
reader_left(r) == reader_hi(r) - reader_lo(r) - r.pos

\* The i-th (1-based) batch of a next_batches call: at most ChunkSize rows,
\* in file order, with the row-index column counted from the file's offset.
batch_of(r, i) ==
    LET first == reader_lo(r) + r.pos + (i - 1) * ChunkSize
        len == Min(ChunkSize, reader_hi(r) - first)
    IN  [file |-> r.file, first |-> first, len |-> len,
         row_index |-> IF IsSome(r.row_index)
                       THEN Some(Unwrap(r.row_index) + first) ELSE None]

\* BatchedParquetReader::next_batches(n): None on exhaustion, else 1..n batches.
next_batches(r, n) ==
    IF fault.kind = "decode" /\ fault.file = r.file
    THEN [kind |-> "Err", batches |-> << >>, reader |-> r]
    ELSE IF reader_left(r) = 0
    THEN [kind |-> "None", batches |-> << >>, reader |-> r]
    ELSE LET k == Min(n, (reader_left(r) + ChunkSize - 1) \div ChunkSize)
             bs == [i \in 1 .. k |-> batch_of(r, i)]
         IN  [kind |-> "Some", batches |-> bs,
              reader |-> [r EXCEPT !.pos = Min(r.pos + k * ChunkSize,
                                                reader_hi(r) - reader_lo(r))]]

\* get_source_index(add): fetch_add on the process-wide counter.
get_source_index(counter, add) == [ret |-> counter, counter |-> counter + add]

\* ------------------------------------------------------------ ParquetSource
Ok(s) == [self |-> s, status |-> "ok"]
Err(s) == [self |-> s, status |-> "err"]
Panic(s) == [self |-> s, status |-> "panic"]

\* Mutant: only a pre_slice makes the refill serial.
needs_exact_processed_rows_count_mut(s) == IsSome(s.pre_slice)

needs_exact_processed_rows_count(s) == IsSome(s.pre_slice) \/ IsSome(s.row_index)

\* The value fetch_add returned is read: by the row index offset or by the
\* split of the slice.
offset_used(s) == IsSome(s.pre_slice) \/ IsSome(s.row_index)

\* Mutant: the slice counts as consumed once its offset is reached.
slice_consumed_mut(pre_slice, processed_rows) ==
    /\ IsSome(pre_slice)
    /\ processed_rows >= Unwrap(pre_slice)[1]

\* init_reader_sync's early return: the pre_slice is already fully consumed.
slice_consumed(pre_slice, processed_rows) ==
    /\ IsSome(pre_slice)
    /\ processed_rows >= Unwrap(pre_slice)[1] + Unwrap(pre_slice)[2]

\* Mutant: ri.offset = processed_rows.load(), the starting offset is lost.
row_index_offset_mut(row_index, processed_rows) ==
    IF IsSome(row_index) THEN Some(processed_rows) ELSE None

\* The row index handed to with_row_index: ri.offset += processed_rows.load().
row_index_offset(row_index, processed_rows) ==
    IF IsSome(row_index) THEN Some(Unwrap(row_index) + processed_rows) ELSE None

\* Mutant: the rows the slice lets through are added, not the file's rows.
rows_to_add_mut(s, index) ==
    IF IsSome(s.pre_slice)
    THEN Min(num_rows(index), Unwrap(s.pre_slice)[2])
    ELSE num_rows(index)

\* The amount of the fetch_add: reader.num_rows() of the file.
rows_to_add(s, index) == num_rows(index)

\* Mutant: the value after the add is taken as the file's row offset.
fetch_add_mut(processed_rows, n) ==
    [ret |-> processed_rows + n, value |-> processed_rows + n]

\* processed_rows.fetch_add(n): the value before the add, and the new value.
fetch_add(processed_rows, n) == [ret |-> processed_rows, value |-> processed_rows + n]

\* The per-file slice: pre_slice.map(|slice| split_slice_at_file(..)).
file_slice(pre_slice, current_row_offset, n_rows_this_file) ==
    IF IsSome(pre_slice)
    THEN LET slice_start == Unwrap(pre_slice)[1]
             slice_end == slice_start + Unwrap(pre_slice)[2]
         IN  Some(split_slice_at_file(current_row_offset, n_rows_this_file,
                                      slice_start, slice_end))
    ELSE None

\* Mutant: the bound reader is queued in front of the older ones.
finish_init_reader_mut(s, batched_reader) ==
    Ok([s EXCEPT !.batched_readers = << batched_reader >> \o @,
                 !.processed_paths = @ + 1,
                 !.bound = Append(@, batched_reader.file),
                 !.max_queue = Max(@, Len(s.batched_readers) + 1)])

\* self.batched_readers.push_back(batched_reader); self.processed_paths += 1
finish_init_reader(s, batched_reader) ==
    Ok([s EXCEPT !.batched_readers = Append(@, batched_reader),
                 !.processed_paths = @ + 1,
                 !.bound = Append(@, batched_reader.file),
                 !.max_queue = Max(@, Len(s.batched_readers) + 1)])

\* Steps shared by init_reader_sync and init_reader_async: the row index
\* offset is read before the fetch_add, the slice is split at the value the
\* fetch_add returned.
bind_reader(s, index, fa) ==
    [reader |-> new_reader(index, num_rows(index),
                           row_index_offset(s.row_index, s.processed_rows),
                           file_slice(s.pre_slice, fa.ret, num_rows(index))),
     processed_rows |-> fa.value,
     add_log |-> IF offset_used(s) THEN Append(s.add_log, << index, fa.ret >>)
                 ELSE s.add_log]

\* init_reader_sync after `index` was taken from iter: File::open(..).unwrap()
\* and num_rows().unwrap() panic, `?` returns the error of the schema
\* projection and, after the fetch_add, of batched.
init_reader_sync_at(s, index, b) ==
    IF slice_consumed(s.pre_slice, s.processed_rows) THEN Ok(s)
    ELSE IF fault.file = index /\ fault.kind = "open" THEN Panic(s)
    ELSE IF fault.file = index /\ fault.kind = "schema" THEN Err(s)
    ELSE IF fault.file = index /\ fault.kind = "num_rows" THEN Panic(s)
    ELSE IF fault.file = index /\ fault.kind = "batched"
    THEN Err([s EXCEPT !.processed_rows = b.processed_rows,
                       !.add_log = b.add_log,
                       !.max_inflight = Max(@, 1)])
    ELSE finish_init_reader([s EXCEPT !.processed_rows = b.processed_rows,
                                      !.add_log = b.add_log,
                                      !.max_inflight = Max(@, 1)],
                            b.reader)

init_reader_sync(s) ==
    IF ~iter_has_next(s.iter) THEN Ok(s)
    ELSE init_reader_sync_at(
             [s EXCEPT !.iter = iter_advance(@, 1)], s.iter.start,
             bind_reader(s, s.iter.start,
                         fetch_add(s.processed_rows, rows_to_add(s, s.iter.start))))

init_next_reader_sync(s) == init_reader_sync(s)

init_next_reader(s) == IF ~s.run_async THEN init_next_reader_sync(s) ELSE Ok(s)

\* `?` on the awaits of lines 202, 213 and 223, then the fetch_add and the
\* reader configured with the file's slice.
init_reader_async_at(s, index, b) ==
    IF fault.file = index /\ fault.kind \in {"open", "schema", "num_rows"}
    THEN [status |-> "err", reader |-> None, processed_rows |-> s.processed_rows,
          add_log |-> s.add_log]
    ELSE [status |-> "ok", reader |-> Some(b.reader),
          processed_rows |-> b.processed_rows, add_log |-> b.add_log]

\* init_reader_async(&self, index) up to its last await: the configured
\* reader and the counter after the fetch_add.
init_reader_async(s, index) ==
    init_reader_async_at(s, index,
        bind_reader(s, index, fetch_add(s.processed_rows, rows_to_add(s, index))))

\* async_reader.with_slice(slice).batched(chunk_size).await?  (line 240)
batched(built) ==
    IF fault.file = built.file /\ fault.kind = "batched"
    THEN [status |-> "err", reader |-> None]
    ELSE [status |-> "ok", reader |-> Some(built)]

RECURSIVE finish_all(_, _)
\* for r in batched_readers { self.finish_init_reader(r)? }
finish_all(s, readers) ==
    IF readers = << >> THEN Ok(s)
    ELSE finish_all(finish_init_reader(s, Head(readers)).self, Tail(readers))

\* Mutant: the refill starts with three readers left.
refill_needed_mut(len) == len <= 3

\* The refill condition of the async branch.
refill_needed(len) == len <= 2 \/ len = 0

\* Mutant: self.iter.zip(range), which takes one more index from iter than
\* it yields when the range ends first.
take_indices_mut(it, k) ==
    [indices |-> [j \in 1 .. Min(k, iter_remaining(it)) |-> it.start + j - 1],
     iter |-> iter_advance(it, Min(k + 1, iter_remaining(it)))]

\* range.zip(&mut self.iter): the next file indices, at most `k` of them.
take_indices(it, k) ==
    LET cnt == Min(k, iter_remaining(it))
    IN  [indices |-> [j \in 1 .. cnt |-> it.start + j - 1],
         iter |-> iter_advance(it, cnt)]

RECURSIVE prefetch_sync(_, _)
\* `?` on one init_next_reader_sync of the sync loop.
prefetch_sync_step(r, k) ==
    IF r.status = "ok" THEN prefetch_sync(r.self, k - 1) ELSE r

\* for _ in 0..k { self.init_next_reader_sync()? }  (once iter is empty the
\* remaining iterations change nothing)
prefetch_sync(s, k) ==
    IF k = 0 \/ ~iter_has_next(s.iter) THEN Ok(s)
    ELSE Strict(LAMBDA r : prefetch_sync_step(r, k), init_next_reader_sync(s))

\* Mutant: the range stops one short of the prefetch size.
prefetch_range_mut(s) ==
    IF s.prefetch_size > Len(s.batched_readers)
    THEN s.prefetch_size - Len(s.batched_readers) - 1
    ELSE 0

\* Mutant: the range does not account for the readers already queued.
prefetch_range_full_mut(s) == s.prefetch_size

\* 0..self.prefetch_size - self.batched_readers.len(), when the subtraction
\* does not overflow.
prefetch_range(s) == s.prefetch_size - Len(s.batched_readers)

\* The subtraction of the range overflows (usize, below zero).
range_underflows(s) == s.prefetch_size < Len(s.batched_readers)

\* The file indices the range takes from iter.  An overflowing subtraction
\* panics where overflow is checked and wraps elsewhere; the wrapped range has
\* 2^64 - (len - prefetch_size) elements, more than a Vec can hold, so the
\* zip ends with iter.
range_indices(s) ==
    IF range_underflows(s)
    THEN take_indices(s.iter, iter_remaining(s.iter))
    ELSE take_indices(s.iter, prefetch_range(s))

\* `attempt to subtract with overflow`
overflow_panics(s) == overflow_checks /\ range_underflows(s)

\* The init futures that run: polled, and not yet returned.
being_bound(at) == Cardinality({j \in 1 .. Len(at) : at[j] \in {"open", "batched"}})

\* The stream of the serial branch polls the future of the next index once
\* the futures before it have returned (stream::iter(init_iter).then(|x| x));
\* try_join_all has polled all its futures.
poll_next(s, at) ==
    IF needs_exact_processed_rows_count(s)
    THEN [j \in 1 .. Len(at) |->
             IF at[j] = "new" /\ \A i \in 1 .. j - 1 : at[i] = "done"
             THEN "open" ELSE at[j]]
    ELSE [j \in 1 .. Len(at) |-> IF at[j] = "new" THEN "open" ELSE at[j]]

\* The init futures of `k` indices are handed to block_in_place_on, which
\* polls them for the first time.
init_iter(s, k) == poll_next(s, [j \in 1 .. k |-> "new"])

\* The async branch up to block_in_place_on: the indices of the range have
\* left iter, their init futures are not yet awaited.
Wait(s) ==
    [self |-> [s EXCEPT !.iter = range_indices(s).iter,
                        !.underflowed = @ \/ range_underflows(s),
                        !.max_inflight =
                            Max(@, being_bound(init_iter(s, Len(range_indices(s).indices))))],
     status |-> "wait"]

\* The sync loop over a wrapped range: it binds what iter still has and then
\* keeps calling init_next_reader_sync, which finds iter empty, for the rest
\* of its 2^64 - (len - prefetch_size) iterations; the call does not return.
Spin(r) == IF r.status = "ok" THEN [self |-> r.self, status |-> "spin"] ELSE r

\* prefetch_files up to its return or, in the async branch, up to the wait
\* for the init futures (status "wait").
prefetch_files(s) ==
    IF s.run_async
    THEN
      IF ~feature_async THEN Panic(s)
      ELSE IF refill_needed(Len(s.batched_readers))
      THEN IF overflow_panics(s)
           THEN Panic([s EXCEPT !.underflowed = TRUE])
           ELSE Wait(s)
      ELSE Ok(s)
    ELSE IF overflow_panics(s)
         THEN Panic([s EXCEPT !.underflowed = TRUE])
         ELSE IF range_underflows(s)
         THEN Spin(prefetch_sync([s EXCEPT !.underflowed = TRUE],
                                 iter_remaining(s.iter)))
         ELSE prefetch_sync(s, prefetch_range(s))

\* What get_batches has come to after next_batches: res is "more" (line 376
\* is reached; the head reader is held in `reader`), "recurse" (line 373),
\* "finished", "err" or "panic"; `reserved` is what was added to the
\* source-index counter on the way.
Ret(s, res) ==
    [self |-> s, res |-> res, reader |-> None, batches |-> << >>, reserved |-> 0]

\* Mutant: an exhausted reader takes a chunk index on its way out.
after_init_mut(i) ==
    IF i.status = "ok"
    THEN [Ret([i.self EXCEPT !.recursed = @ + 1], "recurse") EXCEPT !.reserved = 1]
    ELSE Ret(i.self, i.status)

\* `?` on init_next_reader, then `return self.get_batches(_context)`.
after_init(i) ==
    IF i.status = "ok"
    THEN Ret([i.self EXCEPT !.recursed = @ + 1], "recurse")
    ELSE Ret(i.self, i.status)

\* Mutant: an exhausted head reader ends the scan; the next reader is bound
\* but not polled.
on_batches_mut(nb, rd, s) ==
    IF nb.kind = "Err" THEN Ret(s, "err")
    ELSE IF nb.kind = "None"
    THEN Ret(init_next_reader([s EXCEPT !.exhausted = @ \cup {rd.file}]).self,
             "finished")
    ELSE [self |-> s, res |-> "more", reader |-> Some(nb.reader),
          batches |-> nb.batches, reserved |-> 0]

\* Mutant: an exhausted head reader is reported as an empty vector of
\* batches and kept.
on_batches_spin_mut(nb, rd, s) ==
    IF nb.kind = "Err" THEN Ret(s, "err")
    ELSE [self |-> s, res |-> "more", reader |-> Some(nb.reader),
          batches |-> nb.batches, reserved |-> 0]

\* `?` and the match on the result of next_batches, up to line 376; `rd` is
\* the popped reader, `s` the source without it.
on_batches(nb, rd, s) ==
    IF nb.kind = "Err" THEN Ret(s, "err")
    ELSE IF nb.kind = "None"
    THEN Strict(after_init,
                init_next_reader([s EXCEPT !.exhausted = @ \cup {rd.file}]))
    ELSE [self |-> s, res |-> "more", reader |-> Some(nb.reader),
          batches |-> nb.batches, reserved |-> 0]

\* Mutant: every batch of the vector gets idx_offset.
chunk_index_of_mut(offset, i) == offset

\* chunk_index: (idx_offset + i) as IdxSize, i counted from 0.
chunk_index_of(offset, i) == offset + i

\* batches.into_iter().enumerate_u32().map(..).collect()
data_chunks(offset, bs) ==
    [j \in 1 .. Len(bs) |-> [chunk_index |-> chunk_index_of(offset, j - 1),
                              data |-> bs[j]]]

\* Mutant: the counter is read again and not advanced.
advance_by_mut(chunks) == 0

\* The amount of the second get_source_index call: out.len().
advance_by(chunks) == Len(chunks)

\* Mutant: the reader that is not yet exhausted is queued behind the others.
push_front_mut(q, r) == Append(q, r)

\* self.batched_readers.push_front(reader)
push_front(q, r) == << r >> \o q

\* ParquetSource::new for `paths.len()` paths.
new(n_paths, file_options, run_async_, prefetch_size_) ==
    LET source == [batched_readers |-> << >>,
                   n_threads |-> NThreads,
                   processed_paths |-> 0,
                   processed_rows |-> 0,
                   iter |-> [start |-> 0, end |-> n_paths],
                   pre_slice |-> file_options.pre_slice,
                   row_index |-> file_options.row_index,
                   run_async |-> run_async_,
                   prefetch_size |-> prefetch_size_,
                   bound |-> << >>,       \* history: files bound, in queue order
                   exhausted |-> {},      \* history: files whose reader gave None
                   max_inflight |-> 0,    \* history: most init futures / binds
                                          \* in flight at one time
                   add_log |-> << >>,     \* history: << file, value returned >>
                                          \* of every fetch_add whose value is
                                          \* read, in the order of the adds
                   recursed |-> 0,        \* history: recursive get_batches
                                          \* calls of the running / last call
                   max_queue |-> 0,       \* history: longest batched_readers
                   underflowed |-> FALSE] \* history: a prefetch range was
                                          \* computed with len > prefetch_size
    IN  IF run_async_ THEN init_next_reader(source) ELSE Ok(source)

\* ------------------------------------------------------------------ inputs
FileLists == UNION {[1 .. n -> 0 .. MaxRows] : n \in 0 .. MaxFiles}
\* The file lists of the scans that share the source-index counter.
SharedFileLists == UNION {[1 .. n -> 0 .. SharedRows] : n \in 0 .. SharedFiles}
Slices == {None} \cup {Some(<< s, l >>) : s \in 0 .. MaxSliceOffset, l \in 0 .. MaxSliceLen}
RowIndexes == {None, Some(MaxRowIndexStart)}
\* The options of the scans without a row index: no slice and every slice.
SliceOptions == [pre_slice : Slices, row_index : {None}]
\* The options of the scans with and without a row index: no slice and the
\* slices of the largest length.
RowIndexOptions ==
    [pre_slice : {None} \cup {Some(<< s, MaxSliceLen >>) : s \in 0 .. MaxSliceOffset},
     row_index : RowIndexes]
Faults(files) ==
    {NoFault} \cup [kind : {"open", "schema", "num_rows", "batched", "decode"},
                    file : 0 .. Len(files) - 1]

\* The state after new(): the paths and what num_rows() gives for each, the
\* build, run_async (cloud url or forced), the prefetch size and the options.
InitFor(files, flt, feat, checks, asyncs, prefetches, options, others) ==
    /\ n_rows = files
    /\ fault = flt
    /\ feature_async = feat
    /\ overflow_checks \in checks
    /\ \E a \in asyncs, p \in prefetches, file_options \in options :
          self = new(Len(files), file_options, a, p).self
    /\ CHUNK_INDEX = 0
    /\ pc = "idle"
    /\ range = << >>
    /\ init_done = << >>
    /\ init_at = << >>
    /\ init_built = << >>
    /\ entry = self
    /\ reader = None
    /\ batches = << >>
    /\ idx_offset = 0
    /\ result = "none"
    /\ out = << >>
    /\ emitted = << >>
    /\ called = FALSE
    /\ errored = FALSE
    /\ idx_at_call = 0
    /\ idx_at_read = 0
    /\ idx_at_return = 0
    /\ other_during = 0
    /\ other_left = others
    /\ other = [pc |-> "idle", idx_offset |-> 0, n |-> 0, chunks |-> << >>]
    /\ measure_at_call = 0

InitWith(files, flt, feat, slices, row_indexes, others) ==
    InitFor(files, flt, feat, BOOLEAN, BOOLEAN, 1 .. MaxPrefetch,
            [pre_slice : slices, row_index : row_indexes], others)

\* A scan without a row index on a healthy file system, the only user of
\* the counter, in a release build (the builds differ only from an
\* overflowing subtraction on).
Init ==
    \E files \in FileLists :
        InitFor(files, NoFault, TRUE, {FALSE}, BOOLEAN, 1 .. MaxPrefetch,
                SliceOptions, 0)

\* The same with and without a row index.
InitRowIndex ==
    \E files \in FileLists :
        InitFor(files, NoFault, TRUE, {FALSE}, BOOLEAN, 1 .. MaxPrefetch,
                RowIndexOptions, 0)

\* A scan sharing the source-index counter with other users.
InitShared == \E files \in SharedFileLists : InitWith(files, NoFault, TRUE, {None}, {None}, MaxOther)

\* A scan on a file system where the I/O of one path may fail.
InitFault ==
    \E files \in FileLists : \E flt \in Faults(files) :
        InitWith(files, flt, TRUE, {None, Some(<< 1, 2 >>)}, {None}, 0)

\* A scan next to a second Source of the same process.
InitTwo ==
    \E files \in SharedFileLists : InitWith(files, NoFault, TRUE, {None}, {None}, MaxOther)

\* A scan built without the "async" feature.
InitNoAsync ==
    \E files \in FileLists : InitWith(files, NoFault, FALSE, {None}, {None}, 0)

\* A scan polled by a consumer that never gives up.
InitLive ==
    \E files \in FileLists :
        InitWith(files, NoFault, TRUE, {None, Some(<< 1, 2 >>)}, {None}, 0)

\* The file lists of the scan of many files: some leading empty files, then
\* files of one row.
ManyFileLists ==
    {[j \in 1 .. ManyFiles |-> IF j <= e THEN 0 ELSE 1] : e \in 0 .. ManyFiles}

\* An async scan of ManyFiles files of at most one row with a prefetch size
\* of ManyPrefetch.
InitMany ==
    \E files \in ManyFileLists :
        InitFor(files, NoFault, TRUE, BOOLEAN, {TRUE}, {ManyPrefetch},
                [pre_slice : {None, Some(<< 1, 2 >>)}, row_index : {None}], 0)

\* ----------------------------------------------------------------- actions
\* The termination measure of get_batches: readers the source holds plus
\* file indices left in iter.
Measure(s) == Len(s.batched_readers) + iter_remaining(s.iter)

\* The consumer calls get_batches.
Call ==
    /\ pc = "idle"
    /\ pc' = "running"
    /\ self' = [self EXCEPT !.recursed = 0]
    /\ called' = TRUE
    /\ idx_at_call' = CHUNK_INDEX
    /\ other_during' = 0
    /\ measure_at_call' = Measure(self)
    /\ UNCHANGED << n_rows, fault, feature_async, overflow_checks, range,
                    init_done, init_at, init_built, entry, CHUNK_INDEX,
                    reader, batches, idx_offset, result, out, emitted, errored,
                    idx_at_read, idx_at_return, other_left, other >>

\* Line 360: prefetch_files up to its return or up to the wait for the init
\* futures of an async refill; `?` returns its error.
PrefetchFiles ==
    /\ pc = "running"
    /\ \E p \in {prefetch_files(self)} :
          /\ self' = p.self
          /\ range' = IF p.status = "wait" THEN range_indices(self).indices ELSE << >>
          /\ init_done' = IF p.status = "wait"
                          THEN [j \in 1 .. Len(range_indices(self).indices) |-> None]
                          ELSE << >>
          /\ init_at' = IF p.status = "wait"
                        THEN init_iter(self, Len(range_indices(self).indices))
                        ELSE << >>
          /\ init_built' = IF p.status = "wait"
                           THEN [j \in 1 .. Len(range_indices(self).indices) |-> None]
                           ELSE << >>
          /\ pc' = IF p.status = "wait" THEN "refill"
                    ELSE IF p.status = "ok" THEN "fetched"
                    ELSE IF p.status = "panic" THEN "panicked"
                    ELSE IF p.status = "spin" THEN "spinning"
                    ELSE "idle"
          /\ result' = IF p.status \in {"err", "panic"} THEN p.status ELSE result
          /\ out' = IF p.status \in {"err", "panic"} THEN << >> ELSE out
          /\ errored' = (errored \/ p.status = "err")
    /\ entry' = self
    /\ UNCHANGED << n_rows, fault, feature_async, overflow_checks, CHUNK_INDEX,
                    reader, batches, idx_offset, emitted, called, idx_at_call,
                    idx_at_read, idx_at_return, other_during, other_left,
                    other, measure_at_call >>

\* The init future of one index of the range gets the answers it awaits at
\* lines 202, 213 and 223 and adds the file's rows to processed_rows (lines
\* 224-226); it then awaits batched (line 240).  A failing future ends the
\* wait and the call, and the other futures are dropped.
InitReaderAsyncAdd ==
    /\ pc = "refill"
    /\ \E j \in 1 .. Len(range) :
          /\ init_at[j] = "open"
          /\ \E r \in {init_reader_async(self, range[j])} :
                IF r.status = "ok"
                THEN /\ self' = [self EXCEPT !.processed_rows = r.processed_rows,
                                            !.add_log = r.add_log]
                     /\ init_built' = [init_built EXCEPT ![j] = r.reader]
                     /\ init_at' = [init_at EXCEPT ![j] = "batched"]
                     /\ UNCHANGED << pc, range, init_done, result, out, errored >>
                ELSE /\ pc' = "idle"
                     /\ range' = << >>
                     /\ init_done' = << >>
                     /\ init_at' = << >>
                     /\ init_built' = << >>
                     /\ result' = "err"
                     /\ out' = << >>
                     /\ errored' = TRUE
                     /\ UNCHANGED self
    /\ UNCHANGED << n_rows, fault, feature_async, overflow_checks, CHUNK_INDEX,
                    entry, reader, batches, idx_offset, emitted, called,
                    idx_at_call, idx_at_read, idx_at_return, other_during,
                    other_left, other, measure_at_call >>

\* batched has answered (line 240) and the init future returns its reader
\* (line 242), or the error of batched; in the serial branch the stream then
\* polls the future of the next index.
InitReaderAsyncReturn ==
    /\ pc = "refill"
    /\ \E j \in 1 .. Len(range) :
          /\ init_at[j] = "batched"
          /\ \E r \in {batched(Unwrap(init_built[j]))} :
                IF r.status = "ok"
                THEN /\ init_done' = [init_done EXCEPT ![j] = r.reader]
                     /\ init_built' = [init_built EXCEPT ![j] = None]
                     /\ init_at' = poll_next(self, [init_at EXCEPT ![j] = "done"])
                     /\ self' = [self EXCEPT !.max_inflight =
                            Max(@, being_bound(poll_next(self, [init_at EXCEPT ![j] = "done"])))]
                     /\ UNCHANGED << pc, range, result, out, errored >>
                ELSE /\ pc' = "idle"
                     /\ range' = << >>
                     /\ init_done' = << >>
                     /\ init_at' = << >>
                     /\ init_built' = << >>
                     /\ result' = "err"
                     /\ out' = << >>
                     /\ errored' = TRUE
                     /\ UNCHANGED self
    /\ UNCHANGED << n_rows, fault, feature_async, overflow_checks, CHUNK_INDEX,
                    entry, reader, batches, idx_offset, emitted, called,
                    idx_at_call, idx_at_read, idx_at_return, other_during,
                    other_left, other, measure_at_call >>

\* The wait is over with every future done: the readers are queued in the
\* order of the range (lines 344-346) and prefetch_files returns Ok.
FinishRefill ==
    /\ pc = "refill"
    /\ \A j \in 1 .. Len(range) : init_at[j] = "done"
    /\ self' = finish_all(self, [j \in 1 .. Len(range) |-> Unwrap(init_done[j])]).self
    /\ pc' = "fetched"
    /\ range' = << >>
    /\ init_done' = << >>
    /\ init_at' = << >>
    /\ init_built' = << >>
    /\ UNCHANGED << n_rows, fault, feature_async, overflow_checks, CHUNK_INDEX,
                    entry, reader, batches, idx_offset, result, out, emitted,
                    called, errored, idx_at_call, idx_at_read, idx_at_return,
                    other_during, other_left, other, measure_at_call >>

\* Lines 362-367: the head of the queue is popped and asked for batches, or
\* the call returns Finished on an empty queue.
PopFront ==
    /\ pc = "fetched"
    /\ IF self.batched_readers = << >>
       THEN /\ pc' = "idle"
            /\ result' = "finished"
            /\ out' = << >>
            /\ UNCHANGED << self, reader >>
       ELSE /\ pc' = "decode"
            /\ reader' = Some(Head(self.batched_readers))
            /\ self' = [self EXCEPT !.batched_readers = Tail(@)]
            /\ UNCHANGED << result, out >>
    /\ UNCHANGED << n_rows, fault, feature_async, overflow_checks, CHUNK_INDEX,
                    range, init_done, init_at, init_built, entry, batches, idx_offset, emitted,
                    called, errored, idx_at_call, idx_at_read, idx_at_return,
                    other_during, other_left, other, measure_at_call >>

\* next_batches has returned (line 367): its error is returned; an exhausted
\* reader is dropped, the next one bound (sync) and get_batches called again
\* (lines 370-374); with batches the counter is read (line 376).
NextBatches ==
    /\ pc = "decode"
    /\ \E r \in {on_batches(next_batches(Unwrap(reader), self.n_threads),
                             Unwrap(reader), self)} :
          /\ self' = r.self
          /\ reader' = r.reader
          /\ batches' = r.batches
          /\ pc' = IF r.res = "more" THEN "assign"
                    ELSE IF r.res = "recurse" THEN "running"
                    ELSE IF r.res = "panic" THEN "panicked" ELSE "idle"
          /\ idx_offset' = IF r.res = "more"
                            THEN get_source_index(CHUNK_INDEX, 0).ret ELSE 0
          /\ idx_at_read' = IF r.res = "more" THEN CHUNK_INDEX ELSE idx_at_read
          /\ result' = IF r.res \in {"more", "recurse"} THEN result ELSE r.res
          /\ out' = IF r.res \in {"more", "recurse"} THEN out ELSE << >>
          /\ errored' = (errored \/ r.res = "err")
          /\ CHUNK_INDEX' = get_source_index(CHUNK_INDEX, r.reserved).counter
    /\ UNCHANGED << n_rows, fault, feature_async, overflow_checks, range,
                    init_done, init_at, init_built, entry, emitted, called, idx_at_call,
                    idx_at_return, other_during, other_left, other,
                    measure_at_call >>

\* The rest of the call: lines 377 to 393.
AssignChunks ==
    /\ pc = "assign"
    /\ LET chunks == data_chunks(idx_offset, batches)
       IN  /\ out' = chunks
           /\ emitted' = emitted \o chunks
           /\ CHUNK_INDEX' = get_source_index(CHUNK_INDEX, advance_by(chunks)).counter
           /\ idx_at_return' = get_source_index(CHUNK_INDEX, advance_by(chunks)).counter
    /\ self' = [self EXCEPT !.batched_readers = push_front(@, Unwrap(reader)),
                            !.max_queue = Max(@, Len(self.batched_readers) + 1)]
    /\ result' = "more"
    /\ pc' = "idle"
    /\ reader' = None
    /\ batches' = << >>
    /\ idx_offset' = 0
    /\ UNCHANGED << n_rows, fault, feature_async, overflow_checks, range,
                    init_done, init_at, init_built, entry, called,
                    errored, idx_at_call, idx_at_read, other_during,
                    other_left, other, measure_at_call >>

\* Another user of the process-wide counter reserves one index.
OtherAdvance ==
    /\ other_left > 0
    /\ pc # "panicked"
    /\ CHUNK_INDEX' = get_source_index(CHUNK_INDEX, 1).counter
    /\ other_left' = other_left - 1
    /\ other_during' = IF pc # "idle" THEN other_during + 1 ELSE other_during
    /\ UNCHANGED << n_rows, fault, feature_async, overflow_checks, range,
                    init_done, init_at, init_built, entry, self, pc,
                    reader, batches, idx_offset, result, out, emitted, called,
                    errored, idx_at_call, idx_at_read, idx_at_return, other,
                    measure_at_call >>

\* A second Source of the process has batches at hand and reads the counter
\* (its line 376).
OtherGetBatches ==
    /\ other.pc = "idle"
    /\ other_left > 0
    /\ pc # "panicked"
    /\ \E n \in 1 .. NThreads :
          other' = [other EXCEPT !.pc = "assign",
                                 !.idx_offset = get_source_index(CHUNK_INDEX, 0).ret,
                                 !.n = n]
    /\ other_left' = other_left - 1
    /\ UNCHANGED << n_rows, fault, feature_async, overflow_checks, range,
                    init_done, init_at, init_built, entry, self,
                    CHUNK_INDEX, pc, reader, batches, idx_offset, result, out,
                    emitted, called, errored, idx_at_call, idx_at_read,
                    idx_at_return, other_during, measure_at_call >>

\* The second Source numbers its batches and advances the counter (its lines
\* 377 to 385).
OtherAssignChunks ==
    /\ other.pc = "assign"
    /\ other' = [pc |-> "idle", idx_offset |-> 0, n |-> 0,
                 chunks |-> other.chunks \o
                     [j \in 1 .. other.n |-> chunk_index_of(other.idx_offset, j - 1)]]
    /\ CHUNK_INDEX' = get_source_index(CHUNK_INDEX, other.n).counter
    /\ other_during' = IF pc # "idle" THEN other_during + other.n ELSE other_during
    /\ UNCHANGED << n_rows, fault, feature_async, overflow_checks, range,
                    init_done, init_at, init_built, entry, self, pc,
                    reader, batches, idx_offset, result, out, emitted, called,
                    errored, idx_at_call, idx_at_read, idx_at_return,
                    other_left, measure_at_call >>

\* The steps of a get_batches call in a build without the "async" feature.
NextSync == Call \/ PrefetchFiles \/ PopFront \/ NextBatches \/ AssignChunks
Next == NextSync \/ InitReaderAsyncAdd \/ InitReaderAsyncReturn \/ FinishRefill
NextTwo == Next \/ OtherGetBatches \/ OtherAssignChunks
NextShared == Next \/ OtherAdvance

Spec == Init /\ [][Next]_vars
SpecRowIndex == InitRowIndex /\ [][Next]_vars
SpecShared == InitShared /\ [][NextShared]_vars
SpecFault == InitFault /\ [][Next]_vars
SpecNoAsync == InitNoAsync /\ [][NextSync]_vars
SpecTwo == InitTwo /\ [][NextTwo]_vars
SpecMany == InitMany /\ [][Next]_vars

\* The consumer keeps polling, and a call that was started runs on: the
\* runtime completes the futures the call waits for.
SpecLive ==
    InitLive /\ [][Next]_vars
             /\ WF_vars(Call) /\ WF_vars(PrefetchFiles)
             /\ WF_vars(InitReaderAsyncAdd) /\ WF_vars(InitReaderAsyncReturn)
             /\ WF_vars(FinishRefill) /\ WF_vars(PopFront)
             /\ WF_vars(NextBatches) /\ WF_vars(AssignChunks)

\* ------------------------------------------------------------ observations
\* a, a+1, .., a+n-1
Iota(a, n) == [k \in 1 .. n |-> a + k - 1]
IsPrefix(p, q) == Len(p) <= Len(q) /\ \A k \in 1 .. Len(p) : p[k] = q[k]

\* Global positions (in the concatenation of the files) of the rows of a batch.
BatchPositions(b) == Iota(RowsBefore(b.file) + b.first, b.len)
\* Values of the synthesized row-index column of a batch.
BatchRowIndex(b) == IF IsSome(b.row_index) THEN Iota(Unwrap(b.row_index), b.len) ELSE << >>

RECURSIVE Positions(_)
\* Global positions of all rows of a sequence of chunks, in emission order.
Positions(chunks) ==
    IF chunks = << >> THEN << >>
    ELSE BatchPositions(Head(chunks).data) \o Positions(Tail(chunks))

RECURSIVE RowIndexColumn(_)
\* The synthesized row-index column over a sequence of chunks.
RowIndexColumn(chunks) ==
    IF chunks = << >> THEN << >>
    ELSE BatchRowIndex(Head(chunks).data) \o RowIndexColumn(Tail(chunks))

RECURSIVE SeqRows(_)
\* Sum of num_rows over a sequence of file indices, repeats counted.
SeqRows(files) ==
    IF files = << >> THEN 0 ELSE num_rows(Head(files)) + SeqRows(Tail(files))

EmittedFiles == {emitted[k].data.file : k \in 1 .. Len(emitted)}
\* The readers the init futures of the running refill have returned or
\* have configured and not yet returned.
InitedReaders ==
    {Unwrap(init_done[j]) : j \in {i \in 1 .. Len(init_done) : init_done[i] # None}}
    \cup {Unwrap(init_built[j]) : j \in {i \in 1 .. Len(init_built) : init_built[i] # None}}
\* Every reader the source holds: the queue, the popped head and the readers
\* of a running refill.
HeldReaders ==
    {self.batched_readers[k] : k \in 1 .. Len(self.batched_readers)}
    \cup (IF IsSome(reader) THEN {Unwrap(reader)} ELSE {})
    \cup InitedReaders

RECURSIVE InitedFiles(_)
\* The files of the futures of the running refill that are done, from
\* position j of the range on.
InitedFiles(j) ==
    IF j > Len(range) THEN << >>
    ELSE (IF init_done[j] # None THEN << range[j] >> ELSE << >>) \o InitedFiles(j + 1)

\* The files bound so far: those whose reader was queued and those whose
\* init future is done in the running refill.
BoundFiles == self.bound \o InitedFiles(1)

RECURSIVE AddedFiles(_)
\* The files of the futures of the running refill that are past their
\* fetch_add and have not returned, from position j of the range on.
AddedFiles(j) ==
    IF j > Len(range) THEN << >>
    ELSE (IF init_at[j] = "batched" THEN << range[j] >> ELSE << >>) \o AddedFiles(j + 1)

\* The files being bound: their init future is polled and has not returned.
BeingBound == {range[j] : j \in {i \in 1 .. Len(range) : init_at[i] \in {"open", "batched"}}}

\* ------------------------------------------------------------------ claims
\* C1: batches are emitted in strict (file index, in-file offset) order; a
\* batch of file j is emitted only after the reader of every file i < j has
\* signalled exhaustion; without a pre_slice the emitted rows are a prefix of
\* the concatenation of the files in source order.
C1_EmissionOrder ==
    /\ \A j \in 1 .. Len(emitted) : \A k \in 1 .. Len(emitted) :
          j < k =>
            \/ emitted[j].data.file < emitted[k].data.file
            \/ /\ emitted[j].data.file = emitted[k].data.file
               /\ emitted[j].data.first + emitted[j].data.len <= emitted[k].data.first
    /\ \A j \in EmittedFiles : \A i \in 0 .. j - 1 : i \in self.exhausted
    /\ ~IsSome(self.pre_slice) => IsPrefix(Positions(emitted), Iota(0, TotalRows))

\* Batches of two files have been emitted, the first file over two calls.
C1_Witness ==
    /\ Cardinality(EmittedFiles) >= 2
    /\ self.run_async
    /\ \E k \in 1 .. Len(emitted) :
          emitted[k].data.file = 0 /\ emitted[k].data.first >= NThreads * ChunkSize

\* C2: without predicate and pre_slice, when get_batches has returned
\* finished every file index has been bound exactly once, in order, and
\* drained, and the emitted rows number the total row count of the files.
C2_RowConservation ==
    (result = "finished" /\ ~IsSome(self.pre_slice)) =>
        /\ ~iter_has_next(self.iter)
        /\ self.bound = Iota(0, NFiles)
        /\ self.processed_paths = NFiles
        /\ self.exhausted = 0 .. NFiles - 1
        /\ self.batched_readers = << >>
        /\ Len(Positions(emitted)) = TotalRows
        /\ self.processed_rows = TotalRows

\* An async scan of more files than the prefetch size has finished.
C2_Witness ==
    /\ result = "finished"
    /\ ~IsSome(self.pre_slice)
    /\ self.run_async
    /\ NFiles > self.prefetch_size
    /\ TotalRows >= 3

\* C3: with pre_slice = (s, l) and s + l within the total row count, the
\* emitted rows are at every moment a prefix of the global positions
\* s .. s+l-1, and exactly those positions once finished is returned.
C3_SliceCorrect ==
    (IsSome(self.pre_slice)
       /\ Unwrap(self.pre_slice)[1] + Unwrap(self.pre_slice)[2] <= TotalRows) =>
        /\ IsPrefix(Positions(emitted),
                    Iota(Unwrap(self.pre_slice)[1], Unwrap(self.pre_slice)[2]))
        /\ result = "finished" =>
              Positions(emitted) =
                  Iota(Unwrap(self.pre_slice)[1], Unwrap(self.pre_slice)[2])

\* A finished sliced scan of three files: the first file contributed nothing,
\* the second its tail, the third its head.
C3_Witness ==
    /\ result = "finished"
    /\ IsSome(self.pre_slice)
    /\ NFiles = 3
    /\ EmittedFiles = {1, 2}
    /\ num_rows(0) > 0
    /\ \A k \in 1 .. Len(emitted) : emitted[k].data.file = 1 => emitted[k].data.first > 0
    /\ Len(Positions(emitted)) < num_rows(1) + num_rows(2)

\* C4 as stated: with a row index the offset given to the reader of file i
\* is starting_offset plus the rows of files 0..i-1, and the synthesized
\* column over all emitted batches is starting_offset, starting_offset+1, ..
C4_Original ==
    IsSome(self.row_index) =>
        /\ \A r \in HeldReaders :
              r.row_index = Some(Unwrap(self.row_index) + RowsBefore(r.file))
        /\ RowIndexColumn(emitted) =
              Iota(Unwrap(self.row_index), Len(RowIndexColumn(emitted)))

\* C4 (amended): with a row index the offset given to the reader of file i
\* is starting_offset plus the rows of files 0..i-1; when no pre_slice skips
\* leading rows (none, or offset 0) the synthesized column over all emitted
\* batches is starting_offset, starting_offset+1, .. without gap or repeat.
C4_RowIndex ==
    IsSome(self.row_index) =>
        /\ \A r \in HeldReaders :
              r.row_index = Some(Unwrap(self.row_index) + RowsBefore(r.file))
        /\ (~IsSome(self.pre_slice) \/ Unwrap(self.pre_slice)[1] = 0) =>
              /\ RowIndexColumn(emitted) =
                    Iota(Unwrap(self.row_index), Len(RowIndexColumn(emitted)))
              /\ Len(RowIndexColumn(emitted)) = Len(Positions(emitted))

\* A finished scan with a row index whose rows came from two files.
C4_Witness ==
    /\ IsSome(self.row_index)
    /\ ~IsSome(self.pre_slice)
    /\ result = "finished"
    /\ Cardinality(EmittedFiles) >= 2
    /\ num_rows(0) > 0

\* C5: the chunk_index values of all batches the source returned, in
\* emission order, are strictly increasing, whatever the other users of the
\* counter add between or during its calls.
C5_ChunkIndexIncreasing ==
    \A j \in 1 .. Len(emitted) : \A k \in 1 .. Len(emitted) :
        j < k => emitted[j].chunk_index < emitted[k].chunk_index

\* A second vector was returned by a call during which another user advanced
\* the counter.
C5_Witness ==
    /\ pc = "idle"
    /\ result = "more"
    /\ other_during > 0
    /\ Len(emitted) > Len(out)
    /\ Len(out) > 0

\* C6 as stated: the chunk_index values of one call's vector start at the
\* value the counter had before the call and increase by one per batch, and
\* at the return the counter stands at that value plus the number of batches.
C6_Original ==
    (pc = "idle" /\ result = "more") =>
        /\ \A i \in 1 .. Len(out) : out[i].chunk_index = idx_at_call + i - 1
        /\ idx_at_return = idx_at_call + Len(out)

\* C6: in the vector of one call the chunk_index values start at the value
\* the call read from the counter (line 376) and increase by one per batch;
\* that value is the counter before the call plus what other users added
\* before the read, and at the return the counter stands at the value before
\* the call plus the number of batches plus what other users added during
\* the call.  Alone on the counter, this is the statement of C6_Original.
C6_ContiguousBlock ==
    (pc = "idle" /\ result = "more") =>
        /\ \A i \in 1 .. Len(out) : out[i].chunk_index = idx_at_read + i - 1
        /\ idx_at_call <= idx_at_read
        /\ idx_at_read <= idx_at_call + other_during
        /\ idx_at_return = idx_at_call + Len(out) + other_during
        /\ other_during = 0 =>
              /\ out[1].chunk_index = idx_at_call
              /\ idx_at_return = idx_at_call + Len(out)

\* A call returned two batches; another user advanced the counter while the
\* call was waiting for its readers, before it read the counter.
C6_Witness ==
    /\ pc = "idle"
    /\ result = "more"
    /\ Len(out) >= 2
    /\ idx_at_call > 0
    /\ idx_at_read = idx_at_call + 1
    /\ other_during = 1
    /\ out[1].chunk_index = idx_at_call + 1
    /\ idx_at_return = idx_at_call + Len(out) + 1

\* C7: once a get_batches call has returned finished, every later call
\* returns finished.
C7_IdempotentFinish == [][result = "finished" => result' = "finished"]_vars

\* Finished was returned after batches of several files, in the sync path
\* with a consumed pre_slice.
C7_Witness ==
    /\ result = "finished"
    /\ ~self.run_async
    /\ IsSome(self.pre_slice)
    /\ Len(emitted) >= 2
    /\ self.processed_paths < NFiles

\* C8: once a get_batches call has returned an error, no later call returns
\* more-data.
C8_ErrorsFatal == errored => result # "more"

\* C9: a failure to open a path is returned as an error, in the sync path as
\* in the async path; it never panics.
C9_OpenFailureReturned == fault.kind = "open" => (pc # "panicked" /\ result # "panic")

\* C10: with run_async and at least one file, before any get_batches call
\* file 0 has been taken from iter and its reader is queued.
C10_EagerFirstReader ==
    (self.run_async /\ NFiles >= 1 /\ ~called) =>
        (self.iter.start >= 1 /\ Len(self.batched_readers) >= 1
            /\ self.batched_readers[1].file = 0)

\* C11: built without the "async" feature, a scan that selects run_async
\* fails in the constructor; no get_batches call on a constructed source
\* fails for the missing feature.
C11_FailsAtConstruction ==
    (~feature_async /\ self.run_async) => (pc # "panicked" /\ result # "panic")

\* C12: with a pre_slice or a row index at most one reader is being bound at
\* any time, sync and async; the fetch_adds on processed_rows (with the slice
\* split that reads their value) happen in strictly increasing file order,
\* one per file bound or past its add; and in the async refill the init
\* future of a file is not polled before the futures of the files before it
\* in the range have returned their readers.
C12_SerialBind ==
    (IsSome(self.pre_slice) \/ IsSome(self.row_index)) =>
        /\ Cardinality(BeingBound) <= 1
        /\ self.max_inflight <= 1
        /\ \A j \in 1 .. Len(self.add_log) : \A k \in 1 .. Len(self.add_log) :
              j < k => self.add_log[j][1] < self.add_log[k][1]
        /\ Len(self.add_log) = Len(BoundFiles) + Len(AddedFiles(1))
        /\ \A j \in 1 .. Len(range) :
              init_at[j] # "new" => \A i \in 1 .. j - 1 : init_at[i] = "done"

\* An async refill of three files with a row index and no slice is under
\* way: the first future has returned, the second is past its fetch_add and
\* awaits batched, the third is not polled yet.
C12_Witness ==
    /\ self.run_async
    /\ IsSome(self.row_index)
    /\ ~IsSome(self.pre_slice)
    /\ pc = "refill"
    /\ init_at = << "done", "batched", "new" >>
    /\ Len(self.add_log) = 2
    /\ self.max_inflight = 1
    /\ self.processed_rows = num_rows(0) + num_rows(1)
    /\ num_rows(1) > 0

C14_QueueOrder ==
    (pc = "idle" /\ self.batched_readers # << >>) =>
        /\ \A j \in 1 .. Len(self.batched_readers) :
              \A k \in 1 .. Len(self.batched_readers) :
                  j < k => self.batched_readers[j].file < self.batched_readers[k].file
        /\ Head(self.batched_readers).file \notin self.exhausted
        /\ \A i \in 0 .. Head(self.batched_readers).file - 1 : i \in self.exhausted

\* After a concurrent refill and an exhausted first reader, the second
\* reader gave batches and was pushed back in front of a third.
C14_Witness ==
    /\ pc = "idle"
    /\ result = "more"
    /\ self.run_async
    /\ self.max_inflight >= 2
    /\ self.exhausted # {}
    /\ Len(self.batched_readers) >= 2
    /\ reader_left(Head(self.batched_readers)) > 0

\* C15 as stated: finished is returned exactly when iter is empty and the
\* queue is empty; never while a file index remains in iter.
C15_Original ==
    /\ result = "finished" =>
          (~iter_has_next(self.iter) /\ self.batched_readers = << >>)
    /\ (called /\ pc = "idle" /\ ~iter_has_next(self.iter)
           /\ self.batched_readers = << >>) => result = "finished"

\* C15 (amended): finished is returned only with an empty queue and with
\* iter empty or, in the sync path, the pre_slice fully consumed (the file
\* indices left in iter are then never opened); a call that leaves iter and
\* the queue empty returns finished.
C15_Finished ==
    /\ result = "finished" =>
          /\ self.batched_readers = << >>
          /\ \/ ~iter_has_next(self.iter)
             \/ ~self.run_async /\ slice_consumed(self.pre_slice, self.processed_rows)
    /\ (called /\ pc = "idle" /\ ~iter_has_next(self.iter)
           /\ self.batched_readers = << >>) => result = "finished"

\* A sync scan of non-empty files with a pre_slice of length 0 and a
\* prefetch size of 1 returned finished with file indices left in iter.
C15_Witness ==
    /\ result = "finished"
    /\ iter_has_next(self.iter)
    /\ ~self.run_async
    /\ self.prefetch_size = 1
    /\ slice_consumed(self.pre_slice, self.processed_rows)
    /\ num_rows(0) > 0
    /\ self.batched_readers = << >>

\* C16: every recursive step of a get_batches call lowers the number of
\* readers held plus file indices left in iter by at least one, so a call
\* recurses at most that many times; and a consumer that keeps polling
\* eventually receives finished.
C16_Terminates ==
    /\ [](called =>
             Measure(self) + Len(reader) + self.recursed <= measure_at_call)
    /\ <>(result = "finished")

\* Finished was returned by a call that recursed past two exhausted readers,
\* after batches had been returned.
C16_Witness ==
    /\ result = "finished"
    /\ self.recursed >= 2
    /\ Len(emitted) >= 2
    /\ measure_at_call >= 2

\* What the async refill policy lets one prefetch step do to the source `s`
\* with outcome `p`: nothing with more than two readers queued; else the
\* next min(prefetch_size - len, remaining) indices leave iter, their
\* readers are appended and their rows added.
RefillPolicy(s, p) ==
    LET len == Len(s.batched_readers)
        k == Min(s.prefetch_size - len, iter_remaining(s.iter))
    IN  /\ p.status = "ok"
        /\ len > 2 => p.self = s
        /\ len <= 2 =>
              /\ p.self.iter = [start |-> s.iter.start + k, end |-> s.iter.end]
              /\ Len(p.self.batched_readers) = len + k
              /\ \A j \in 1 .. len : p.self.batched_readers[j] = s.batched_readers[j]
              /\ \A j \in 1 .. k :
                    p.self.batched_readers[len + j].file = s.iter.start + j - 1
              /\ p.self.processed_rows =
                    s.processed_rows + SumRows(s.iter.start .. s.iter.start + k - 1)

\* The policy holds of every prefetch step that has returned, whatever the
\* order in which its init futures completed; no prefetch step fails, and
\* reader exhaustion binds nothing in the async path.
AsyncRefill ==
    self.run_async =>
        /\ pc = "fetched" => RefillPolicy(entry, Ok(self))
        /\ pc \notin {"panicked", "spinning"} /\ ~errored
        /\ init_next_reader(self) = Ok(self)

\* C17 as stated: the async refill policy; and with prefetch_size 8 and 10
\* files exactly 8 readers are bound before the first batch is emitted.
C17_Original ==
    /\ AsyncRefill
    /\ (self.run_async /\ NFiles > self.prefetch_size /\ emitted = << >>
           /\ pc = "assign") => Len(self.bound) = self.prefetch_size

\* C17 (amended): the async refill policy; and with prefetch_size 8 and 10
\* files at least 8 readers are bound before the first batch is emitted,
\* exactly 8 unless six or more leading readers are exhausted without a
\* batch, which lets the queue fall to two readers and be refilled.
C17_RefillPolicy ==
    /\ AsyncRefill
    /\ (self.run_async /\ NFiles > self.prefetch_size /\ emitted = << >>
           /\ pc = "assign") =>
          /\ Len(self.bound) >= self.prefetch_size
          /\ Cardinality(self.exhausted) < self.prefetch_size - 2 =>
                Len(self.bound) = self.prefetch_size

\* The first batch is about to be emitted after two exhausted readers: five
\* readers are queued behind the head, two indices are left in iter, and the
\* prefetch size of readers has been bound.
C17_Witness ==
    /\ self.run_async
    /\ pc = "assign"
    /\ emitted = << >>
    /\ self.prefetch_size >= 8
    /\ Cardinality(self.exhausted) = 2
    /\ Len(self.batched_readers) = self.prefetch_size - 3
    /\ iter_remaining(self.iter) = 2
    /\ Len(self.bound) = self.prefetch_size

\* The rows of the scan a pre_slice asks for: global positions from its
\* offset, as many as its length and the files allow.
Window(pre_slice) ==
    Iota(Unwrap(pre_slice)[1],
         Max(0, Min(Unwrap(pre_slice)[1] + Unwrap(pre_slice)[2], TotalRows)
                  - Unwrap(pre_slice)[1]))
WindowEnd(pre_slice) == Unwrap(pre_slice)[1] + Unwrap(pre_slice)[2]
Consumed(s) == IsSome(s.pre_slice) /\ s.processed_rows >= WindowEnd(s.pre_slice)

\* What the sync prefetch step does to the source `s` with outcome `p`: it
\* appends readers of the next files of iter, in order, and stops when the
\* queue has prefetch_size readers, iter is empty or the slice is consumed;
\* with the slice consumed it leaves queue and processed_rows as they are.
SyncPrefetch(s, p) ==
    LET len == Len(s.batched_readers)
        k == Len(p.self.batched_readers) - len
    IN  /\ p.status = "ok"
        /\ k >= 0
        /\ \A j \in 1 .. len : p.self.batched_readers[j] = s.batched_readers[j]
        /\ \A j \in 1 .. k :
              p.self.batched_readers[len + j].file = s.iter.start + j - 1
        /\ p.self.processed_rows =
              s.processed_rows + SumRows(s.iter.start .. s.iter.start + k - 1)
        /\ \/ Len(p.self.batched_readers) = s.prefetch_size
           \/ ~iter_has_next(p.self.iter)
           \/ Consumed(p.self)
        /\ Consumed(s) => k = 0

\* C18: the sync prefetch step binds the next files one at a time while the
\* queue is shorter than prefetch_size and iter has items; once the
\* pre_slice is consumed a bind attempt opens and binds nothing and leaves
\* queue and processed_rows unchanged; no file is bound that starts at or
\* after the end of the window, and a finished scan has emitted every row of
\* the window.
C18_SyncShortCircuit ==
    ~self.run_async =>
        /\ pc = "fetched" => SyncPrefetch(entry, Ok(self))
        /\ pc \notin {"panicked", "spinning", "refill"} /\ ~errored
        /\ Consumed(self) =>
              \A i \in {init_reader_sync(self)} :
                  /\ i.status = "ok"
                  /\ i.self.batched_readers = self.batched_readers
                  /\ i.self.processed_rows = self.processed_rows
                  /\ i.self.bound = self.bound
        /\ self.max_inflight <= 1
        /\ IsSome(self.pre_slice) =>
              /\ \A j \in 1 .. Len(self.bound) :
                    RowsBefore(self.bound[j]) < WindowEnd(self.pre_slice)
              /\ IsPrefix(Positions(emitted), Window(self.pre_slice))
              /\ result = "finished" => Positions(emitted) = Window(self.pre_slice)

\* A sync sliced scan finished without binding its last, non-empty file:
\* the window of two rows ended in an earlier file and was emitted in full.
C18_Witness ==
    /\ ~self.run_async
    /\ result = "finished"
    /\ IsSome(self.pre_slice)
    /\ Unwrap(self.pre_slice)[1] >= 1
    /\ Len(self.bound) < NFiles
    /\ num_rows(NFiles - 1) > 0
    /\ Len(Positions(emitted)) = 2

\* C19: the counter moves only by the number of batches returned: alone on
\* the counter, it always equals the number of chunks emitted, through calls
\* that drop exhausted readers and calls that return finished.
C19_CounterUntouched == CHUNK_INDEX = Len(emitted)

\* The reader of a file whose rows the slice leaves out never gave a batch
\* and was dropped by a call that went on to return batches of a later file;
\* the scan has finished.
C19_Witness ==
    /\ result = "finished"
    /\ \E f \in self.exhausted : \E g \in EmittedFiles :
          f \notin EmittedFiles /\ f < g /\ num_rows(f) > 0
    /\ Len(emitted) >= 2

\* C20: no chunk_index value is handed to two batches: the indices this
\* Source assigned and those a second Source of the process assigned are
\* disjoint, under every interleaving of their reads and advances of the
\* counter.
C20_NoOverlap ==
    \A j \in 1 .. Len(emitted) : \A k \in 1 .. Len(other.chunks) :
        emitted[j].chunk_index # other.chunks[k]

\* C21: batched_readers never holds more than prefetch_size readers, between
\* calls and inside them, in the sync and the async path; hence no prefetch
\* step computes prefetch_size - len with len > prefetch_size.
C21_QueueWithinPrefetch ==
    /\ Len(self.batched_readers) <= self.prefetch_size
    /\ self.max_queue <= self.prefetch_size
    /\ ~self.underflowed

\* A sync scan with a full queue: a reader was exhausted and replaced, and
\* the head that gave batches was pushed back, filling the queue again.
C21_Witness ==
    /\ ~self.run_async
    /\ pc = "idle"
    /\ result = "more"
    /\ self.exhausted # {}
    /\ self.prefetch_size >= 2
    /\ Len(self.batched_readers) = self.prefetch_size
    /\ self.max_queue = self.prefetch_size
    /\ self.recursed >= 1

====
